---- MODULE Spec2Model ----
(***************************************************************************)
(* OverlapTomographicReconstruction                                        *)
(* (py4DSTEM/process/phase/iterative_overlap_tomography.py) as a state     *)
(* machine: one instance, its attributes, and the calls preprocess() and   *)
(* reconstruct() made on it.  reconstruct() is cut into the steps of its   *)
(* main loop (call, iteration, tilt, forward, adjoint, batch end, tilt     *)
(* end, iteration end, store).                                             *)
(*                                                                         *)
(* Arrays are followed at one representative pixel and hold integers.      *)
(* Reals that the code compares or combines exactly (the reconstruction    *)
(* parameter, the projection coefficients) are fixed-point numbers, Unit   *)
(* standing for 1.0.  A Python None is the empty sequence <<>>, a value v  *)
(* that may be None is <<v>>.                                              *)
(***************************************************************************)
EXTENDS Integers, Sequences, FiniteSets, TLC

VARIABLES
    \* ---- instance attributes
    verbose,                    \* self._verbose
    device,                     \* the device given to __init__: self._xp is numpy on
                                \* "cpu" and cupy on "gpu"
    preprocessed,               \* self._preprocessed
    attrs,                      \* names of the attributes set after __init__ (hasattr)
    object,                     \* self._object: <<>> or the voxel volume
    probe,                      \* self._probe: <<>> or <<value>>
    object_initial,             \* self._object_initial
    probe_initial,              \* self._probe_initial
    positions_px_all,           \* self._positions_px_all, one entry per pattern
    positions_px_initial_all,   \* self._positions_px_initial_all
    mean_diffraction_intensity, \* self._mean_diffraction_intensity, one entry per tilt
    object_sliced,              \* self._object_sliced
    object_sliced_old,          \* self._object_sliced_old
    exit_waves,                 \* self._exit_waves: <<>> (None) or <<record>>
    object_iterations,          \* self.object_iterations
    probe_iterations,           \* self.probe_iterations
    error_iterations,           \* self.error_iterations
    result,                     \* self.object, self.probe, self.error: <<>> or <<record>>
    rng,                        \* state of the global random generators of numpy and
                                \* cupy: how each was last seeded, what it has drawn since
    \* ---- the call in progress
    pc,                         \* where the running call stands; "idle" between calls
    op,                         \* the call made last: "init", "preprocess", "reconstruct"
    outcome,                    \* how the last call ended: "running", "returned" or the error raised
    given,                      \* reconstruction_method and reconstruction_parameter as
                                \* passed, while the method is worked out from them
    loc,                        \* parameters and local variables of the running reconstruct()
    fwd,                        \* what the last forward step was given and computed
    probe_at_iter_start,        \* self._probe when the current iteration started
    calls,                      \* number of calls made on the instance
    runs,                       \* number of reconstruct() calls that passed the method chain
    \* ---- the array helpers applied on their own
    arrays                      \* what _propagate_array or
                                \* _expand_or_project_sliced_object was given and returned

program_vars == <<verbose, device, preprocessed, attrs, object, probe, object_initial, probe_initial,
          positions_px_all, positions_px_initial_all, mean_diffraction_intensity,
          object_sliced, object_sliced_old, exit_waves, object_iterations,
          probe_iterations, error_iterations, result, rng, pc, op, outcome, given, loc,
          fwd, probe_at_iter_start, calls,
          runs>>

vars == <<program_vars, arrays>>

instance_vars == <<verbose, device, preprocessed, attrs, object, probe, object_initial,
                   probe_initial, positions_px_all, positions_px_initial_all,
                   mean_diffraction_intensity, object_sliced, object_sliced_old,
                   exit_waves, object_iterations, probe_iterations, error_iterations,
                   result, rng>>

observed_vars == <<fwd, probe_at_iter_start>>

-----------------------------------------------------------------------------
\* Bounds of the model.

MaxCalls == 3       \* calls made on the instance
MaxRuns == 1        \* reconstruct() calls that get past the method chain
MaxIter == 1        \* largest max_iter passed to reconstruct()
Unit == 2           \* fixed-point denominator: Unit stands for 1.0

None == <<>>
Inf == 1000         \* np.inf as an iteration threshold: above every a0

-----------------------------------------------------------------------------
\* Constructor arguments and measured data.

\* tilt_angles_degrees: one angle per tilt
tilt_angles_deg == <<0, 180>>
num_tilts == Len(tilt_angles_deg)
\* rx * ry of each datacube's Rshape
NumProbesPerTilt == <<2, 1>>
num_slices == 1
\* object.shape[0] of the initial object built by preprocess()
NumVoxels == 2

RECURSIVE SumTo(_, _)
SumTo(s, n) == IF n = 0 THEN 0 ELSE SumTo(s, n - 1) + s[n]

\* np.cumsum([0] + num_probes_per_tilt): cum_probes_per_tilt[t] for t in 0..num_tilts
cum_probes_per_tilt(t) == SumTo(NumProbesPerTilt, t)
num_diffraction_patterns == SumTo(NumProbesPerTilt, num_tilts)

\* self._amplitudes at the representative pixel, one value per diffraction pattern
Amplitudes == <<0, 2, 1>>

\* Attributes preprocess() sets before reading diffraction_patterns_rotate_degrees.
AttrsEarly == {"_num_diffraction_patterns", "_cum_probes_per_tilt",
               "_mean_diffraction_intensity", "_positions_px_all"}
\* Attributes preprocess() sets afterwards.
AttrsLate == {"_amplitudes", "_region_of_interest_shape", "_object_initial",
              "_num_voxels", "_positions_px_initial_all", "_probe_initial",
              "_propagator_arrays"}

Seq0(n, v) == [i \in 1..n |-> v]

-----------------------------------------------------------------------------
\* Calls

NoGiven == [reconstruction_method |-> "", reconstruction_parameter |->
            [scalar |-> TRUE, v |-> <<0>>]]

NoLoc == [use_projection_scheme |-> FALSE, projection |-> None,
          reconstruction_parameter |-> None, step_size |-> None, max_batch_size |-> 0,
          max_iter |-> 0, fix_probe_iter |-> 0, fix_positions_iter |-> 0,
          store_iterations |-> FALSE, batched |-> FALSE, warned |-> FALSE,
          a0 |-> 0, tilt |-> 0, batch |-> 0, shuffled_indices |-> None,
          positions_px |-> None, error |-> None, batch_error |-> 0,
          \* the other arguments of the call
          seed_random |-> None, reset |-> None, fix_com |-> FALSE,
          fix_probe_fourier_amplitude_iter |-> 0, global_affine_transformation |-> FALSE,
          gaussian_filter_sigma |-> None, gaussian_filter_iter |-> 0,
          butterworth_filter_iter |-> 0, q_lowpass |-> None, q_highpass |-> None,
          \* self._positions_px_com and self._positions_px_initial of the batch
          positions_px_com |-> 0, positions_px_initial |-> None,
          \* what the call has done so far: the lengths of the histories when the loop
          \* started, the batches of the tilt pass that went through the forward and
          \* adjoint operators, the volume handed to the last constraint step and the
          \* constraints that step applied, in order
          history_start |-> None, visited |-> None, unconstrained |-> None,
          applied |-> None,
          \* the call before this one was a preprocess() that returned
          follows_preprocess |-> FALSE]

NoFwd == [called |-> FALSE, completed |-> FALSE, use_projection_scheme |-> FALSE,
          projection |-> None, amplitudes |-> 0, propagated_probes |-> 0, overlap |-> 0,
          previous |-> None]

NoResult == [object |-> None, probe |-> None, error |-> None]

\* A generator nobody seeded, and the two global generators at import
NoArrays == [fn |-> "none", input |-> None, kernel |-> None, current |-> None,
             done |-> None]

Unseeded == [how |-> "unseeded", seed |-> 0, draws |-> 0]
Generators == [numpy |-> Unseeded, cupy |-> Unseeded]

\* A call ends: its locals are gone and the instance is idle again.
Ends(how) ==
    /\ pc' = "idle"
    /\ outcome' = how
    /\ loc' = NoLoc

LoopPcs == {"iter", "tilt", "forward", "adjoint", "batch_end", "tilt_end",
            "iter_end", "store"}

-----------------------------------------------------------------------------
\* __init__

\* initial_object_guess and initial_probe_guess: None or an array
InitialObjectGuesses == {None, Seq0(NumVoxels, 0)}
InitialProbeGuesses == {None, <<1>>}

\* device: "cpu" (the default) or "gpu"
Devices == {"cpu", "gpu"}

\* self._xp: the array module the instance computes with
ArrayModule(dev) == IF dev = "cpu" THEN "numpy" ELSE "cupy"

\* The instance constructed on one of the devices with one of the object guesses
ConstructedWith(devices, object_guesses) ==
    /\ verbose \in BOOLEAN
    /\ device \in devices
    /\ preprocessed = FALSE
    /\ attrs = {}
    /\ object \in object_guesses
    /\ probe \in InitialProbeGuesses
    /\ object_initial = None
    /\ probe_initial = None
    /\ positions_px_all = None
    /\ positions_px_initial_all = None
    /\ mean_diffraction_intensity = None
    /\ object_sliced = None
    /\ object_sliced_old = None
    /\ exit_waves = None
    /\ object_iterations = None
    /\ probe_iterations = None
    /\ error_iterations = None
    /\ result = NoResult
    /\ rng = Generators
    /\ pc = "idle"
    /\ op = "init"
    /\ outcome = "returned"
    /\ given = NoGiven
    /\ loc = NoLoc
    /\ fwd = NoFwd
    /\ probe_at_iter_start = None
    /\ calls = 0
    /\ runs = 0

Constructed(devices) == ConstructedWith(devices, InitialObjectGuesses)

InitOn(devices) == Constructed(devices) /\ arrays = NoArrays

\* The instance constructed with the default device
Init == InitOn({"cpu"})

-----------------------------------------------------------------------------
\* preprocess()

\* diffraction_patterns_rotate_degrees: None (the default) or an angle
RotateDegrees == {None, <<0>>}

\* Scan positions in pixels, centred per tilt: one value per pattern, a function of
\* the constructor's scan positions alone.
CentredPositions == [k \in 1..num_diffraction_patterns |-> 10 * k]

\* np.empty((num_diffraction_patterns, 2)): uninitialised memory
UninitialisedPositions == {Seq0(num_diffraction_patterns, 0),
                           Seq0(num_diffraction_patterns, 7)}

\* Mean diffraction intensity of every tilt's normalised amplitudes.
MeanIntensityPerTilt == Seq0(num_tilts, 1)

\* ComplexProbe(...).build()._array at the representative pixel
BuiltProbe == 2

\* self._probe *= sqrt(mean intensity / sum(|fft2(probe)|^2)): at one pixel and mean
\* intensity 1 the probe keeps its phase and gets magnitude 1.
NormalizeProbe(p) == IF p < 0 THEN -1 ELSE 1

\* preprocess(), one of at most max_calls calls made on the instance
PreprocessCall(rotate_degrees, max_calls) ==
    /\ pc = "idle"
    /\ calls < max_calls
    /\ calls' = calls + 1
    /\ op' = "preprocess"
    /\ pc' = "idle"
    /\ UNCHANGED <<arrays, verbose, device, object_sliced, object_sliced_old, exit_waves,
                   object_iterations, probe_iterations, error_iterations, result, rng,
                   loc, fwd, probe_at_iter_start, runs>>
    /\ given' = NoGiven
    /\ IF rotate_degrees = None
       THEN \* np.deg2rad(None) raises after the first arrays are allocated
            /\ outcome' = "TypeError"
            /\ attrs' = attrs \cup AttrsEarly
            /\ mean_diffraction_intensity' = <<>>
            /\ positions_px_all' \in UninitialisedPositions
            /\ UNCHANGED <<preprocessed, object, probe, object_initial, probe_initial,
                           positions_px_initial_all>>
       ELSE /\ outcome' = "returned"
            /\ attrs' = attrs \cup AttrsEarly \cup AttrsLate
            /\ mean_diffraction_intensity' = MeanIntensityPerTilt
            /\ positions_px_all' = CentredPositions
            /\ positions_px_initial_all' = CentredPositions
            /\ object' = IF object = None THEN Seq0(NumVoxels, 0) ELSE object
            /\ object_initial' = object'
            /\ probe' = <<NormalizeProbe(IF probe = None THEN BuiltProbe ELSE probe[1])>>
            /\ probe_initial' = probe'
            /\ preprocessed' = TRUE

Preprocess(rotate_degrees) == PreprocessCall(rotate_degrees, MaxCalls)

-----------------------------------------------------------------------------
\* reconstruct(): the reconstruction method

Methods == {"generalized-projection",
            "DM_AP", "difference-map_alternating-projections",
            "RAAR", "relaxed-averaged-alternating-reflections",
            "RRR", "relax-reflect-reflect",
            "SUPERFLIP", "charge-flipping",
            "GD", "gradient-descent", "gradient_descent",
            "ePIE"}

Scalar(x) == [scalar |-> TRUE, v |-> <<x>>]
Sequence(s) == [scalar |-> FALSE, v |-> s]

\* reconstruction_parameter: numbers below, at, inside and above the ranges, and
\* sequences of two and of three numbers
Parameters == {Scalar(x) : x \in {-1, 0, 1, Unit, Unit + 1, 2 * Unit, 2 * Unit + 1}}
              \cup {Sequence(<<0, Unit>>), Sequence(<<-1, 1, Unit>>)}

\* np.array(reconstruction_parameter).shape != (3,)
NotThreeNumbers(p) == p.scalar \/ Len(p.v) # 3

\* reconstruction_parameter < 0.0 or reconstruction_parameter > upper
OutOfRangeExclusive(x, upper) == x < 0 \/ x >= upper
OutOfRange(x, upper) == x < 0 \/ x > upper

Raises(error) == [raises |-> error, use_projection_scheme |-> FALSE, projection |-> None,
                  reconstruction_parameter |-> None]

\* use_projection_scheme = True with (projection_a, projection_b, projection_c)
ProjectionScheme(abc, p) == [raises |-> "none", use_projection_scheme |-> TRUE,
                             projection |-> abc, reconstruction_parameter |-> p]

DMAPCoefficients(x) == <<-x, Unit, Unit + x>>
RAARCoefficientsUnrelaxed(x) == <<Unit - x, x, 2 * Unit>>
RAARCoefficients(x) == <<Unit - 2 * x, x, 2 * Unit>>
RRRCoefficients(x) == <<-x, x, 2 * Unit>>
SuperflipCoefficients == <<0, Unit, 2 * Unit>>

\* A preset with one parameter in [0, upper]; a sequence compared with a float
\* raises TypeError.
Preset(p, upper, abc) ==
    IF ~p.scalar THEN Raises("TypeError")
    ELSE IF OutOfRange(p.v[1], upper) THEN Raises("ValueError")
    ELSE ProjectionScheme(abc, <<p>>)

ReconstructionMethod(m, p) ==
    IF m = "generalized-projection" THEN
        IF NotThreeNumbers(p) THEN Raises("ValueError")
        ELSE ProjectionScheme(p.v, <<p>>)
    ELSE IF m \in {"DM_AP", "difference-map_alternating-projections"} THEN
        Preset(p, Unit, IF p.scalar THEN DMAPCoefficients(p.v[1]) ELSE None)
    ELSE IF m \in {"RAAR", "relaxed-averaged-alternating-reflections"} THEN
        Preset(p, Unit, IF p.scalar THEN RAARCoefficients(p.v[1]) ELSE None)
    ELSE IF m \in {"RRR", "relax-reflect-reflect"} THEN
        Preset(p, 2 * Unit, IF p.scalar THEN RRRCoefficients(p.v[1]) ELSE None)
    ELSE IF m \in {"SUPERFLIP", "charge-flipping"} THEN
        ProjectionScheme(SuperflipCoefficients, None)
    ELSE IF m \in {"GD", "gradient-descent"} THEN
        [raises |-> "none", use_projection_scheme |-> FALSE, projection |-> None,
         reconstruction_parameter |-> None]
    ELSE Raises("ValueError")

\* reconstruct() is entered and works out the method (the if/elif chain): one of at
\* most max_calls calls made on the instance, and of at most max_runs that get past
\* the chain.
ReconstructCall(m, p, max_calls, max_runs) ==
    /\ pc = "idle"
    /\ calls < max_calls
    /\ calls' = calls + 1
    /\ op' = "reconstruct"
    /\ given' = [reconstruction_method |-> m, reconstruction_parameter |-> p]
    /\ UNCHANGED <<instance_vars, arrays>>
    /\ fwd' = NoFwd
    /\ probe_at_iter_start' = None
    /\ LET r == ReconstructionMethod(m, p) IN
       IF r.raises # "none"
       THEN /\ Ends(r.raises)
            /\ UNCHANGED runs
       ELSE /\ runs < max_runs
            /\ runs' = runs + 1
            /\ pc' = "configured"
            /\ outcome' = "running"
            /\ loc' = [NoLoc EXCEPT !.use_projection_scheme = r.use_projection_scheme,
                                    !.projection = r.projection,
                                    !.reconstruction_parameter = r.reconstruction_parameter,
                                    !.follows_preprocess =
                                        op = "preprocess" /\ outcome = "returned"]

ReconstructMethod(m, p) == ReconstructCall(m, p, MaxCalls, MaxRuns)


-----------------------------------------------------------------------------
\* reconstruct(): batching and initialization, up to the main loop

SeedsRandom == {None, <<7>>}
FixProbeIters == {1}
Resets == {<<TRUE>>, <<FALSE>>}

\* The arguments of a plain call: the defaults of the signature, max_iter at its
\* largest, step_size 1.
DefaultArgs == [max_batch_size |-> None, seed_random |-> None, max_iter |-> MaxIter,
                step_size |-> 1, fix_probe_iter |-> 0, fix_positions_iter |-> Inf,
                store_iterations |-> FALSE, reset |-> None,
                fix_com |-> TRUE, fix_probe_fourier_amplitude_iter |-> 0,
                global_affine_transformation |-> TRUE, gaussian_filter_sigma |-> None,
                gaussian_filter_iter |-> Inf, butterworth_filter_iter |-> Inf,
                q_lowpass |-> None, q_highpass |-> None]

\* One argument away from the plain call.
OneArgument(args) ==
    {[args EXCEPT !.max_iter = n] : n \in 0..MaxIter}
    \cup {[args EXCEPT !.fix_probe_iter = n] : n \in FixProbeIters}
    \cup {[args EXCEPT !.store_iterations = TRUE]}
    \cup {[args EXCEPT !.reset = r] : r \in Resets}

\* The calls made: the plain call, the plain call with one argument changed, and the
\* same calls again with batches of one pattern.
ReconstructArgs ==
    OneArgument(DefaultArgs)
    \cup {[DefaultArgs EXCEPT !.max_batch_size = <<1>>, !.seed_random = seed] :
             seed \in SeedsRandom}
    \cup OneArgument([DefaultArgs EXCEPT !.max_batch_size = <<1>>, !.seed_random = <<7>>])

\* The check under `if self._verbose:` that refuses batching with a projection scheme
BatchingRefused(is_verbose, max_batch_size, use_projection_scheme) ==
    is_verbose /\ max_batch_size # None /\ use_projection_scheme

\* The generator is seeded when batching is asked for and the call got that far.
SeedsGeneratorUnchecked(refused, max_batch_size) == max_batch_size # None
SeedsGenerator(refused, max_batch_size) == ~refused /\ max_batch_size # None

\* xp.random.seed(seed_random)
Seeded(seed_random) ==
    IF seed_random = None THEN [how |-> "entropy", seed |-> 0, draws |-> 0]
    ELSE [how |-> "seed", seed |-> seed_random[1], draws |-> 0]

\* Attributes each part of the initialization reads
BatchingReads(max_batch_size) ==
    IF max_batch_size = None THEN {"_num_diffraction_patterns"} ELSE {}
ResetReads == {"_object_initial", "_probe_initial", "_positions_px_initial_all"}
ProbeSupportReadsNothing == {}
ProbeSupportReads == {"_region_of_interest_shape"}

\* `if reset:`
ResetIgnored(reset) == FALSE
ResetAsked(reset) == reset = <<TRUE>>

ReconstructBegin(args) ==
    /\ pc = "configured"
    /\ UNCHANGED <<arrays, calls, runs, op, verbose, device, preprocessed, object_initial,
                   probe_initial, positions_px_initial_all, mean_diffraction_intensity,
                   object_sliced, object_sliced_old, result>>
    /\ UNCHANGED observed_vars
    /\ given' = NoGiven
    /\ LET max_batch_size == args.max_batch_size
           seed_random == args.seed_random
           store_iterations == args.store_iterations
           reset == args.reset
           refused == BatchingRefused(verbose, max_batch_size, loc.use_projection_scheme)
           batching == ~refused /\ BatchingReads(max_batch_size) \subseteq attrs
           clear == /\ batching
                    /\ store_iterations
                    /\ ("object_iterations" \notin attrs \/ reset = <<TRUE>>)
           restore == batching /\ ResetAsked(reset) /\ ResetReads \subseteq attrs
           fresh == batching /\ ~ResetAsked(reset) /\ reset = None /\ "error" \notin attrs
           warned == batching /\ ~ResetAsked(reset) /\ reset = None /\ "error" \in attrs
           passed == batching /\ (ResetAsked(reset) => restore)
           masked == passed /\ ProbeSupportReads \subseteq attrs
       IN
       /\ rng' = IF SeedsGenerator(refused, max_batch_size)
                 THEN [rng EXCEPT ![ArrayModule(device)] = Seeded(seed_random)]
                 ELSE rng
       /\ object_iterations' = IF clear THEN <<>> ELSE object_iterations
       /\ probe_iterations' = IF clear THEN <<>> ELSE probe_iterations
       /\ error_iterations' = IF clear THEN <<>> ELSE error_iterations
       /\ object' = IF restore THEN object_initial ELSE object
       /\ probe' = IF restore THEN probe_initial ELSE probe
       /\ positions_px_all' = IF restore THEN positions_px_initial_all
                              ELSE positions_px_all
       /\ exit_waves' = IF restore \/ fresh THEN None ELSE exit_waves
       /\ attrs' = attrs
                   \cup (IF clear THEN {"object_iterations"} ELSE {})
                   \cup (IF restore \/ fresh THEN {"_exit_waves"} ELSE {})
                   \cup (IF masked THEN {"_probe_support_mask"} ELSE {})
       /\ IF refused THEN Ends("ValueError")
          ELSE IF ~masked THEN Ends("AttributeError")
          ELSE /\ pc' = "iter"
               /\ outcome' = "running"
               /\ loc' = [loc EXCEPT
                     !.max_batch_size = IF max_batch_size = None
                                        THEN num_diffraction_patterns
                                        ELSE max_batch_size[1],
                     !.batched = max_batch_size # None,
                     !.step_size = IF loc.use_projection_scheme THEN None
                                   ELSE <<args.step_size>>,
                     !.max_iter = args.max_iter,
                     !.fix_probe_iter = args.fix_probe_iter,
                     !.fix_positions_iter = args.fix_positions_iter,
                     !.store_iterations = store_iterations,
                     !.warned = warned,
                     !.a0 = 0,
                     !.seed_random = seed_random,
                     !.reset = reset,
                     !.fix_com = args.fix_com,
                     !.fix_probe_fourier_amplitude_iter =
                         args.fix_probe_fourier_amplitude_iter,
                     !.global_affine_transformation = args.global_affine_transformation,
                     !.gaussian_filter_sigma = args.gaussian_filter_sigma,
                     !.gaussian_filter_iter = args.gaussian_filter_iter,
                     !.butterworth_filter_iter = args.butterworth_filter_iter,
                     !.q_lowpass = args.q_lowpass,
                     !.q_highpass = args.q_highpass,
                     !.history_start = <<Len(object_iterations'),
                                         Len(probe_iterations'),
                                         Len(error_iterations')>>]


-----------------------------------------------------------------------------
\* Array operations

Abs(x) == IF x < 0 THEN -x ELSE x
Reverse(s) == [i \in 1..Len(s) |-> s[Len(s) + 1 - i]]

\* scipy.ndimage.rotate(volume, angle, axes=(0, 2), reshape=False), for the angles
\* 0 and +-180 degrees: a half turn reverses the depth axis.
RotateNever(volume, angle) == volume
Rotate(volume, angle) == IF angle % 360 = 0 THEN volume ELSE Reverse(volume)

\* zoom(array, (output_z / input_z, 1, 1), order=0, mode="nearest", grid_mode=True)
\* * input_z / output_z: output entry i (from 0) takes the input entry nearest to
\* (i + 0.5) * input_z / output_z - 0.5.
ExpandOrProject(array, output_z) ==
    LET input_z == Len(array) IN
    [i \in 1..output_z |->
        (array[((2 * i - 1) * input_z) \div (2 * output_z) + 1] * input_z) \div output_z]

\* self._object += self._expand_or_project_sliced_object(
\*     self._object_sliced - self._object_sliced_old, self._num_voxels)
FoldResampled(volume, object_sliced_new, object_sliced_before) ==
    ExpandOrProject(object_sliced_new, Len(volume))
FoldBack(volume, object_sliced_new, object_sliced_before) ==
    LET delta == [s \in 1..Len(object_sliced_new) |->
                     object_sliced_new[s] - object_sliced_before[s]]
        expanded == ExpandOrProject(delta, Len(volume))
    IN [i \in 1..Len(volume) |-> volume[i] + expanded[i]]

\* xp.maximum(current_object, 0.0)
ObjectLeftUnclamped(current_object) == current_object
ObjectPositivityConstraint(current_object) ==
    [i \in 1..Len(current_object) |->
        IF current_object[i] < 0 THEN 0 ELSE current_object[i]]

\* The complex overlap of the last slice, propagated_probes * exp(1j * potential), at
\* the representative pixel.  The potential is in units of pi / 2 and even there (the
\* folded updates are multiples of NumVoxels \div num_slices), so the transmission is
\* real: 1 or -1.
Transmission(potential) == IF (potential \div 2) % 2 = 0 THEN 1 ELSE -1
OverlapProjection(current_object, current_probe) ==
    current_probe * Transmission(current_object[Len(current_object)])

\* ifft2(amplitudes * exp(1j * angle(fft2(field)))) at one real pixel: the field keeps
\* its sign (angle(0) = 0) and takes the measured magnitude.
MagnitudeProjection(amplitudes, field) == IF field < 0 THEN -amplitudes ELSE amplitudes

\* Batches of a tilt of n patterns: ceil(n / max_batch) batches of nearly equal size.
NumBatches(n, max_batch) == (n + max_batch - 1) \div max_batch
BatchSize(n, max_batch, b) ==
    LET nb == NumBatches(n, max_batch) IN
    n \div nb + (IF b < n % nb THEN 1 ELSE 0)
RECURSIVE BatchStart(_, _, _)
BatchStart(n, max_batch, b) ==
    IF b = 0 THEN 0 ELSE BatchStart(n, max_batch, b - 1) + BatchSize(n, max_batch, b - 1)

NumPatterns(tilt) == cum_probes_per_tilt(tilt + 1) - cum_probes_per_tilt(tilt)

-----------------------------------------------------------------------------
\* Forward operator

\* exit_waves = -overlap.copy(); exit_waves[-1] += modified_exit_wave, and the error
\* mean(|amplitudes - |fft2(overlap[-1])||^2) / mean intensity
GradientDescentFourierProjection(amplitudes, overlap, intensity) ==
    [raises |-> "none",
     last |-> MagnitudeProjection(amplitudes, overlap) - overlap,
     projected_factor |-> MagnitudeProjection(amplitudes, overlap),
     error |-> ((amplitudes - Abs(overlap)) * (amplitudes - Abs(overlap))) \div intensity]

\* The generalized projection with coefficients (a, b, c).  x, y, the previous exit
\* wave (a copy of the given stack when none exists), the error and the projected
\* factor are computed from the given stack; the assignment to exit_waves[-1] then
\* reads the name `overlap`, which the function does not bind, so the call raises
\* NameError and the exit waves stay as they were.
ProjectionSetsFourierProjection(amplitudes, propagated_probes, previous, abc, intensity) ==
    LET projection_x == Unit - abc[1] - abc[2]
        projection_y == Unit - abc[3]
        prev == IF previous = None THEN propagated_probes ELSE previous[1].last
        factor_to_be_projected == abc[3] * propagated_probes + projection_y * prev
    IN [raises |-> "NameError",
        last |-> prev,
        projected_factor |-> MagnitudeProjection(amplitudes, factor_to_be_projected),
        error |-> Abs(amplitudes * amplitudes - propagated_probes * propagated_probes)
                  \div intensity]

\* _forward: the overlap projection, then the Fourier projection of the scheme in use
\* (which is handed propagated_probes in the place of the overlap).
Forward(amplitudes, propagated_probes, overlap, previous, use_projection_scheme, abc, intensity) ==
    IF use_projection_scheme
    THEN ProjectionSetsFourierProjection(amplitudes, propagated_probes, previous, abc,
                                         intensity)
    ELSE GradientDescentFourierProjection(amplitudes, overlap, intensity)

-----------------------------------------------------------------------------
\* Adjoint operator

\* The updates the adjoint computes from a batch are linear in its exit waves.  At the
\* representative pixel the object update is the exit wave times
\* NumVoxels \div num_slices (so that the fold back into the volume is exact) and the
\* probe update is the exit wave.
ObjectUpdate(exit_wave) == exit_wave * (NumVoxels \div num_slices)
ProbeUpdate(exit_wave) == exit_wave

\* current_object[s] += step_size * update; current_probe += step_size * update
\* (fix_probe is not read)
GradientDescentAdjoint(current_object, current_probe, object_update, probe_update, step_size, fix_probe) ==
    [object |-> [s \in 1..Len(current_object) |->
                    current_object[s] + step_size * object_update],
     probe |-> current_probe + step_size * probe_update]

\* current_object[s] = update; current_probe = update unless fix_probe
ProjectionSetsAdjointAdding(current_object, current_probe, object_update, probe_update, fix_probe) ==
    [object |-> [s \in 1..Len(current_object) |-> current_object[s] + object_update],
     probe |-> IF fix_probe THEN current_probe ELSE current_probe + probe_update]
ProjectionSetsAdjoint(current_object, current_probe, object_update, probe_update, fix_probe) ==
    [object |-> [s \in 1..Len(current_object) |-> object_update],
     probe |-> IF fix_probe THEN current_probe ELSE probe_update]

Adjoint(current_object, current_probe, object_update, probe_update, use_projection_scheme, step_size, fix_probe) ==
    IF use_projection_scheme
    THEN ProjectionSetsAdjoint(current_object, current_probe, object_update,
                               probe_update, fix_probe)
    ELSE GradientDescentAdjoint(current_object, current_probe, object_update,
                                probe_update, step_size, fix_probe)


-----------------------------------------------------------------------------
\* Constraints

\* The supergaussian support mask at the centre pixel, where xx = yy = 0: exp(-0)
ProbeSupportMask == 1

\* current_probe * self._probe_support_mask
ProbeFiniteSupportConstraint(current_probe) == current_probe * ProbeSupportMask

\* The mean of a non-empty array
Mean(array) == SumTo(array, Len(array)) \div Len(array)

\* gaussian_filter(current_object, sigma) along the depth axis: the kernel
\* (sigma, 2, sigma) / (2 + 2 sigma), the volume reflected at its two ends
ObjectGaussianConstraint(current_object, gaussian_filter_sigma) ==
    LET n == Len(current_object)
        at(i) == current_object[IF i < 1 THEN 1 ELSE IF i > n THEN n ELSE i]
    IN [i \in 1..n |->
           (gaussian_filter_sigma * at(i - 1) + 2 * at(i) + gaussian_filter_sigma * at(i + 1))
               \div (2 + 2 * gaussian_filter_sigma)]

\* real(ifftn(fftn(current_object) * env)) along the depth axis.  env starts at one;
\* `if q_highpass:` multiplies it by 1 - 1 / (1 + (q / q_highpass)^4), zero at q = 0
\* and a half at the cutoff; `if q_lowpass:` by 1 / (1 + (q / q_lowpass)^4), one at
\* q = 0 and a half at the cutoff.  The volume is its mean (q = 0) plus the rest,
\* taken at the cutoff.  A cutoff of None or 0.0 leaves env as it is.
ObjectButterworthConstraint(current_object, q_lowpass, q_highpass) ==
    LET high == q_highpass # None /\ q_highpass # <<0>>
        low == q_lowpass # None /\ q_lowpass # <<0>>
        mean == Mean(current_object)
        env_at_zero == IF high THEN 0 ELSE 1
        quarters_at_cutoff == ((IF high THEN 2 ELSE 4) * (IF low THEN 2 ELSE 4)) \div 4
    IN [i \in 1..Len(current_object) |->
           env_at_zero * mean + (quarters_at_cutoff * (current_object[i] - mean)) \div 4]

\* The probe takes the Fourier amplitude of the initial probe and keeps its phase.
ProbeFourierAmplitudeConstraint(current_probe, initial_probe) ==
    IF current_probe < 0 THEN -Abs(initial_probe) ELSE Abs(initial_probe)

\* The probe is shifted so that the centroid of its intensity sits at the centre of
\* the field: the representative pixel is that centre.
ProbeCenterOfMassConstraint(current_probe) == current_probe

\* current_positions -= mean(current_positions) - self._positions_px_com
PositionsCenterOfMassConstraint(current_positions, positions_px_com) ==
    [k \in 1..Len(current_positions) |->
        current_positions[k] - (Mean(current_positions) - positions_px_com)]

\* The least-squares map from the initial to the current positions, here a
\* translation, applied to the initial positions.  The initial positions are those of
\* the last batch, in the order the batch was visited.
PositionsAffineTransformationConstraint(initial_positions, current_positions) ==
    LET shift == Mean(current_positions) - Mean(initial_positions)
    IN [k \in 1..Len(initial_positions) |-> initial_positions[k] + shift]

\* The constraints _constraints applies, in the order it applies them
ConstraintStepsClampFirst(fix_com, fix_probe_fourier_amplitude, fix_positions, global_affine_transformation, gaussian_filter, butterworth_filter) ==
    <<"positivity">>
    \o (IF gaussian_filter THEN <<"gaussian">> ELSE <<>>)
    \o (IF butterworth_filter THEN <<"butterworth">> ELSE <<>>)
    \o (IF fix_probe_fourier_amplitude THEN <<"probe_fourier_amplitude">> ELSE <<>>)
    \o <<"probe_finite_support">>
    \o (IF fix_com THEN <<"probe_center_of_mass">> ELSE <<>>)
    \o (IF ~fix_positions THEN <<"positions_center_of_mass">> ELSE <<>>)
    \o (IF ~fix_positions /\ global_affine_transformation
        THEN <<"positions_affine_transformation">> ELSE <<>>)
ConstraintSteps(fix_com, fix_probe_fourier_amplitude, fix_positions, global_affine_transformation, gaussian_filter, butterworth_filter) ==
    (IF gaussian_filter THEN <<"gaussian">> ELSE <<>>)
    \o (IF butterworth_filter THEN <<"butterworth">> ELSE <<>>)
    \o <<"positivity">>
    \o (IF fix_probe_fourier_amplitude THEN <<"probe_fourier_amplitude">> ELSE <<>>)
    \o <<"probe_finite_support">>
    \o (IF fix_com THEN <<"probe_center_of_mass">> ELSE <<>>)
    \o (IF ~fix_positions THEN <<"positions_center_of_mass">> ELSE <<>>)
    \o (IF ~fix_positions /\ global_affine_transformation
        THEN <<"positions_affine_transformation">> ELSE <<>>)

\* One constraint applied to the current object, probe and positions
ConstraintStep(self, step, current, gaussian_filter_sigma, q_lowpass, q_highpass) ==
    CASE step = "gaussian" ->
            [current EXCEPT !.object =
                ObjectGaussianConstraint(current.object, gaussian_filter_sigma[1])]
      [] step = "butterworth" ->
            [current EXCEPT !.object =
                ObjectButterworthConstraint(current.object, q_lowpass, q_highpass)]
      [] step = "positivity" ->
            [current EXCEPT !.object = ObjectPositivityConstraint(current.object)]
      [] step = "probe_fourier_amplitude" ->
            [current EXCEPT !.probe =
                ProbeFourierAmplitudeConstraint(current.probe, self.probe_initial)]
      [] step = "probe_finite_support" ->
            [current EXCEPT !.probe = ProbeFiniteSupportConstraint(current.probe)]
      [] step = "probe_center_of_mass" ->
            [current EXCEPT !.probe = ProbeCenterOfMassConstraint(current.probe)]
      [] step = "positions_center_of_mass" ->
            [current EXCEPT !.positions =
                PositionsCenterOfMassConstraint(current.positions, self.positions_px_com)]
      [] step = "positions_affine_transformation" ->
            [current EXCEPT !.positions =
                PositionsAffineTransformationConstraint(self.positions_px_initial,
                                                        current.positions)]

RECURSIVE ConstraintsFrom(_, _, _, _, _, _, _)
ConstraintsFrom(self, steps, k, current, gaussian_filter_sigma, q_lowpass, q_highpass) ==
    IF k > Len(steps) THEN current
    ELSE ConstraintsFrom(self, steps, k + 1,
                         ConstraintStep(self, steps[k], current, gaussian_filter_sigma,
                                        q_lowpass, q_highpass),
                         gaussian_filter_sigma, q_lowpass, q_highpass)

\* _constraints: the constrained object, probe and positions, with the list of the
\* constraints applied.  self holds the attributes the constraints read.
Constraints(self, current_object, current_probe, current_positions, fix_com, fix_probe_fourier_amplitude, fix_positions, global_affine_transformation, gaussian_filter, gaussian_filter_sigma, butterworth_filter, q_lowpass, q_highpass) ==
    LET steps == ConstraintSteps(fix_com, fix_probe_fourier_amplitude, fix_positions,
                                 global_affine_transformation, gaussian_filter,
                                 butterworth_filter)
        constrained == ConstraintsFrom(self, steps, 1,
                                       [object |-> current_object,
                                        probe |-> current_probe,
                                        positions |-> current_positions],
                                       gaussian_filter_sigma, q_lowpass, q_highpass)
    IN [object |-> constrained.object, probe |-> constrained.probe,
        positions |-> constrained.positions, applied |-> steps]

-----------------------------------------------------------------------------
\* reconstruct(): the main loop

ShuffleWithRepeats(n) == [1..n -> 1..n]
ShuffleOrders(n) == {f \in [1..n -> 1..n] : \A i, j \in 1..n : f[i] = f[j] => i = j}

\* np.arange(n)
Arange(n) == [i \in 1..n |-> i]

\* The order a generator seeded with `seed` that has drawn `draws` numbers since gives
\* n patterns: a function of the three, here the rotation by seed + draws.
SeededShuffle(seed, draws, n) == [i \in 1..n |-> ((i - 1 + seed + draws) % n) + 1]

\* np.random.shuffle(np.arange(n)): the orders numpy's global generator can give.  A
\* generator seeded with a number gives one order; one seeded from the system's
\* entropy, or never seeded, any.
NumpyShuffles(generator, n) ==
    IF generator.how = "seed" THEN {SeededShuffle(generator.seed, generator.draws, n)}
    ELSE ShuffleOrders(n)

\* The shuffle of n entries draws n - 1 numbers.
Drawn(generator, n) ==
    IF generator.how = "seed" THEN [generator EXCEPT !.draws = generator.draws + n - 1]
    ELSE generator

\* unshuffled_indices[shuffled_indices] = np.arange(n)
LeftAsVisited(shuffled) == Arange(Len(shuffled))
Unshuffled(shuffled) ==
    [i \in 1..Len(shuffled) |-> CHOOSE j \in 1..Len(shuffled) : shuffled[j] = i]

running == <<arrays, calls, runs, op, verbose, device, preprocessed, attrs, object_initial, probe_initial,
             positions_px_initial_all, mean_diffraction_intensity, result, rng, given,
             outcome>>

\* for a0 in range(max_iter): error = 0.0
IterStart ==
    /\ pc = "iter"
    /\ UNCHANGED running
    /\ UNCHANGED <<object, probe, positions_px_all, object_sliced, object_sliced_old,
                   exit_waves, object_iterations, probe_iterations, error_iterations,
                   fwd>>
    /\ IF loc.a0 < loc.max_iter
       THEN /\ pc' = "tilt"
            /\ loc' = [loc EXCEPT !.error = <<0>>, !.tilt = 0]
            /\ probe_at_iter_start' = probe
       ELSE /\ pc' = "store"
            /\ UNCHANGED <<loc, probe_at_iter_start>>

\* A tilt pass starts: the object is rotated into the tilt frame and resampled, the
\* patterns of the tilt are shuffled (gradient descent only) and their positions taken.
TiltStart(shuffled_indices) ==
    /\ pc = "tilt"
    /\ IF loc.use_projection_scheme
       THEN /\ shuffled_indices = Arange(NumPatterns(loc.tilt))
            /\ UNCHANGED rng
       ELSE /\ shuffled_indices \in NumpyShuffles(rng.numpy, NumPatterns(loc.tilt))
            /\ rng' = [rng EXCEPT !.numpy = Drawn(rng.numpy, NumPatterns(loc.tilt))]
    /\ UNCHANGED <<arrays, calls, runs, op, verbose, device, preprocessed, attrs, object_initial,
                   probe_initial, positions_px_initial_all, mean_diffraction_intensity,
                   result, given, outcome>>
    /\ UNCHANGED <<probe, positions_px_all, exit_waves, object_iterations,
                   probe_iterations, error_iterations, fwd, probe_at_iter_start>>
    /\ object' = Rotate(object, tilt_angles_deg[loc.tilt + 1])
    /\ object_sliced' = ExpandOrProject(object', num_slices)
    /\ object_sliced_old' = object_sliced'
    /\ loc' = [loc EXCEPT
          !.batch = 0,
          !.visited = <<>>,
          !.unconstrained = None,
          !.applied = None,
          !.shuffled_indices = shuffled_indices,
          !.positions_px = [j \in 1..NumPatterns(loc.tilt) |->
              positions_px_all[cum_probes_per_tilt(loc.tilt) + shuffled_indices[j]]]]
    /\ pc' = "forward"

\* One batch: its amplitudes are taken and the forward operator is applied.
ForwardStep ==
    /\ pc = "forward"
    /\ UNCHANGED <<arrays, calls, runs, op, verbose, device, preprocessed, attrs,
                   object_initial, probe_initial, positions_px_initial_all,
                   mean_diffraction_intensity, result, rng, given>>
    /\ UNCHANGED <<object, probe, positions_px_all, object_sliced, object_sliced_old,
                   object_iterations, probe_iterations, error_iterations, probe_at_iter_start>>
    /\ IF "_exit_waves" \notin attrs
       THEN \* self._exit_waves is read as an argument of _forward
            /\ Ends("AttributeError")
            /\ UNCHANGED <<exit_waves, fwd>>
       ELSE IF Len(mean_diffraction_intensity) <= loc.tilt
       THEN \* self._mean_diffraction_intensity[self._active_tilt_index]
            /\ Ends("IndexError")
            /\ UNCHANGED <<exit_waves, fwd>>
       ELSE LET start == BatchStart(NumPatterns(loc.tilt), loc.max_batch_size, loc.batch)
                end == start + BatchSize(NumPatterns(loc.tilt), loc.max_batch_size,
                                         loc.batch)
                amplitudes == Amplitudes[cum_probes_per_tilt(loc.tilt)
                                         + loc.shuffled_indices[start + 1]]
                overlap == OverlapProjection(object_sliced, probe[1])
                r == Forward(amplitudes, probe[1], overlap, exit_waves,
                             loc.use_projection_scheme, loc.projection,
                             mean_diffraction_intensity[loc.tilt + 1])
                seen == [called |-> TRUE, completed |-> r.raises = "none",
                         use_projection_scheme |-> loc.use_projection_scheme,
                         projection |-> loc.projection, amplitudes |-> amplitudes,
                         propagated_probes |-> probe[1], overlap |-> overlap,
                         previous |-> exit_waves]
            IN
            /\ fwd' = seen
            /\ IF r.raises # "none"
               THEN /\ Ends(r.raises)
                    /\ UNCHANGED exit_waves
               ELSE /\ exit_waves' = <<[last |-> r.last,
                                        projection |-> loc.use_projection_scheme,
                                        tilt |-> loc.tilt, batch |-> loc.batch]>>
                    /\ loc' = [loc EXCEPT
                          !.batch_error = r.error,
                          !.positions_px_com =
                              Mean(SubSeq(loc.positions_px, start + 1, end)),
                          !.positions_px_initial =
                              [k \in 1..(end - start) |->
                                  positions_px_initial_all[
                                      cum_probes_per_tilt(loc.tilt)
                                      + loc.shuffled_indices[start + k]]]]
                    /\ pc' = "adjoint"
                    /\ outcome' = outcome

\* The adjoint operator updates the sliced object and the probe.
AdjointStep ==
    /\ pc = "adjoint"
    /\ UNCHANGED running
    /\ UNCHANGED <<object, positions_px_all, object_sliced_old, exit_waves,
                   object_iterations, probe_iterations, error_iterations,
                   probe_at_iter_start, loc>>
    /\ fwd' = NoFwd
    /\ LET fix_probe == loc.a0 < loc.fix_probe_iter
           r == Adjoint(object_sliced, probe[1], ObjectUpdate(exit_waves[1].last),
                        ProbeUpdate(exit_waves[1].last),
                        loc.use_projection_scheme,
                        IF loc.step_size = None THEN 0 ELSE loc.step_size[1],
                        fix_probe)
       IN
       /\ object_sliced' = r.object
       /\ probe' = <<r.probe>>
    /\ pc' = "batch_end"

\* _position_correction: the positions of the batch, refined by one step
PositionCorrection(current_positions) ==
    [k \in 1..Len(current_positions) |-> current_positions[k] + 1]

\* The batch ends: its positions are corrected once a0 >= fix_positions_iter and the
\* batch error is added to the iteration's.
BatchEnd ==
    /\ pc = "batch_end"
    /\ UNCHANGED running
    /\ UNCHANGED <<object, probe, positions_px_all, object_sliced, object_sliced_old,
                   exit_waves, object_iterations, probe_iterations, error_iterations,
                   fwd, probe_at_iter_start>>
    /\ LET last == loc.batch + 1 >= NumBatches(NumPatterns(loc.tilt), loc.max_batch_size)
           n == NumPatterns(loc.tilt)
           start == BatchStart(n, loc.max_batch_size, loc.batch)
           end == start + BatchSize(n, loc.max_batch_size, loc.batch)
           corrected == PositionCorrection(SubSeq(loc.positions_px, start + 1, end))
       IN
       /\ loc' = [loc EXCEPT
             !.positions_px = IF loc.a0 >= loc.fix_positions_iter
                              THEN [k \in 1..n |->
                                      IF k > start /\ k <= end THEN corrected[k - start]
                                      ELSE loc.positions_px[k]]
                              ELSE loc.positions_px,
             !.error = <<loc.error[1] + loc.batch_error>>,
             !.visited = Append(loc.visited, SubSeq(loc.shuffled_indices, start + 1, end)),
             !.batch = IF last THEN loc.batch ELSE loc.batch + 1]
       /\ pc' = IF last THEN "tilt_end" ELSE "forward"

\* The tilt pass ends: the sliced update is folded into the volume, the volume rotated
\* back, the positions stored in their original order, the constraints applied.
TiltEnd ==
    /\ pc = "tilt_end"
    /\ UNCHANGED <<arrays, calls, runs, op, verbose, device, preprocessed, attrs, object_initial,
                   probe_initial, positions_px_initial_all, mean_diffraction_intensity,
                   result, rng, given>>
    /\ UNCHANGED <<object_sliced, object_sliced_old, exit_waves, object_iterations,
                   probe_iterations, error_iterations, fwd, probe_at_iter_start>>
    /\ LET start_tilt == cum_probes_per_tilt(loc.tilt)
           n == NumPatterns(loc.tilt)
           folded == FoldBack(object, object_sliced, object_sliced_old)
           rotated == Rotate(folded, -tilt_angles_deg[loc.tilt + 1])
           unshuffled_indices == Unshuffled(loc.shuffled_indices)
           stored == [k \in 1..Len(positions_px_all) |->
                        IF k > start_tilt /\ k <= start_tilt + n
                        THEN loc.positions_px[unshuffled_indices[k - start_tilt]]
                        ELSE positions_px_all[k]]
           c == Constraints([probe_initial |-> probe_initial[1],
                             positions_px_com |-> loc.positions_px_com,
                             positions_px_initial |-> loc.positions_px_initial],
                            rotated, probe[1],
                            [i \in 1..n |-> stored[start_tilt + i]],
                            loc.fix_com /\ loc.a0 >= loc.fix_probe_iter,
                            loc.a0 < loc.fix_probe_fourier_amplitude_iter,
                            loc.a0 < loc.fix_positions_iter,
                            loc.global_affine_transformation,
                            loc.a0 < loc.gaussian_filter_iter
                                /\ loc.gaussian_filter_sigma # None,
                            loc.gaussian_filter_sigma,
                            loc.a0 < loc.butterworth_filter_iter
                                /\ (loc.q_lowpass # None \/ loc.q_highpass # None),
                            loc.q_lowpass, loc.q_highpass)
           done == [loc EXCEPT !.unconstrained = rotated, !.applied = c.applied]
       IN
       IF Len(c.positions) # n
       THEN \* the positions fitted to the last batch do not fit the tilt's slice
            /\ object' = c.object
            /\ probe' = <<c.probe>>
            /\ positions_px_all' = stored
            /\ Ends("ValueError")
       ELSE /\ object' = c.object
            /\ probe' = <<c.probe>>
            /\ positions_px_all' = [k \in 1..Len(stored) |->
                                       IF k > start_tilt /\ k <= start_tilt + n
                                       THEN c.positions[k - start_tilt]
                                       ELSE stored[k]]
            /\ IF loc.tilt + 1 < num_tilts
               THEN /\ loc' = [done EXCEPT !.tilt = loc.tilt + 1]
                    /\ pc' = "tilt"
                    /\ UNCHANGED outcome
               ELSE /\ loc' = done
                    /\ pc' = "iter_end"
                    /\ UNCHANGED outcome

\* if store_iterations: the three histories grow by one snapshot each
\* history.append(value)
SnapshotDropped(history, value) == history
Snapshot(history, value) == Append(history, value)

IterEnd ==
    /\ pc = "iter_end"
    /\ UNCHANGED running
    /\ UNCHANGED <<object, probe, positions_px_all, object_sliced, object_sliced_old,
                   exit_waves, fwd, probe_at_iter_start>>
    /\ IF loc.store_iterations
       THEN /\ object_iterations' = Snapshot(object_iterations, object)
            /\ probe_iterations' = Snapshot(probe_iterations, probe[1])
            /\ error_iterations' = Snapshot(error_iterations, loc.error[1])
       ELSE UNCHANGED <<object_iterations, probe_iterations, error_iterations>>
    /\ loc' = [loc EXCEPT !.a0 = loc.a0 + 1, !.unconstrained = None, !.applied = None]
    /\ pc' = "iter"

\* self.object, self.probe, self.error = ...: `error` is bound by the loop body only
StoreResult ==
    /\ pc = "store"
    /\ UNCHANGED <<arrays, calls, runs, op, verbose, device, preprocessed, object_initial,
                   probe_initial, positions_px_initial_all, mean_diffraction_intensity,
                   rng, given>>
    /\ UNCHANGED <<object, probe, positions_px_all, object_sliced, object_sliced_old,
                   exit_waves, object_iterations, probe_iterations, error_iterations,
                   fwd, probe_at_iter_start>>
    /\ IF loc.error = None
       THEN /\ result' = [result EXCEPT !.object = <<object>>, !.probe = probe]
            /\ UNCHANGED attrs
            /\ Ends("UnboundLocalError")
       ELSE /\ result' = [object |-> <<object>>, probe |-> probe, error |-> loc.error]
            /\ attrs' = attrs \cup {"error"}
            /\ Ends("returned")

-----------------------------------------------------------------------------

Next ==
    \/ \E d \in RotateDegrees : Preprocess(d)
    \/ \E m \in Methods, p \in Parameters : ReconstructMethod(m, p)
    \/ \E args \in ReconstructArgs : ReconstructBegin(args)
    \/ IterStart
    \/ \E shuffled \in UNION {ShuffleOrders(n) : n \in 1..2} : TiltStart(shuffled)
    \/ ForwardStep
    \/ AdjointStep
    \/ BatchEnd
    \/ TiltEnd
    \/ IterEnd
    \/ StoreResult

Spec == Init /\ [][Next]_vars

-----------------------------------------------------------------------------
\* The main loop under every constraint option, on both devices: the calls made are
\* gradient descent and one projection scheme, with the arguments of ReconstructArgs
\* and the plain call with one constraint option changed.

LoopMethods == {"GD", "DM_AP"}
LoopParameters == {Scalar(Unit)}

\* Iteration thresholds: one the last iteration reaches, and np.inf
Thresholds == {MaxIter - 1, Inf}

ConstraintArguments(args) ==
    {[args EXCEPT !.gaussian_filter_sigma = <<1>>, !.gaussian_filter_iter = n] :
        n \in Thresholds}
    \cup {[args EXCEPT !.q_lowpass = <<1>>, !.butterworth_filter_iter = n] :
             n \in Thresholds}
    \cup {[args EXCEPT !.q_highpass = <<1>>]}
    \cup {[args EXCEPT !.fix_probe_fourier_amplitude_iter = n] : n \in {MaxIter}}
    \cup {[args EXCEPT !.fix_com = FALSE]}
    \cup {[args EXCEPT !.fix_positions_iter = MaxIter - 1,
                       !.global_affine_transformation = g] : g \in BOOLEAN}
    \cup {[args EXCEPT !.gaussian_filter_sigma = <<1>>, !.q_lowpass = <<1>>,
                       !.q_highpass = <<1>>, !.fix_probe_fourier_amplitude_iter = MaxIter,
                       !.fix_positions_iter = MaxIter - 1]}

LoopArgs == ReconstructArgs \cup ConstraintArguments(DefaultArgs)

NextLoop ==
    \/ \E d \in RotateDegrees : Preprocess(d)
    \/ \E m \in LoopMethods, p \in LoopParameters : ReconstructMethod(m, p)
    \/ \E args \in LoopArgs : ReconstructBegin(args)
    \/ IterStart
    \/ \E shuffled \in UNION {ShuffleOrders(n) : n \in 1..2} : TiltStart(shuffled)
    \/ ForwardStep
    \/ AdjointStep
    \/ BatchEnd
    \/ TiltEnd
    \/ IterEnd
    \/ StoreResult

SpecLoop == InitOn(Devices) /\ [][NextLoop]_vars

-----------------------------------------------------------------------------
\* The tilt passes of gradient descent on an instance given an initial object guess
\* whose voxels differ along the depth axis, so that a half turn shows; the calls are
\* those of ReconstructArgs and the plain call with step_size 0.

InitTilts == ConstructedWith({"cpu"}, {<<0, 2>>, <<4, 2>>}) /\ arrays = NoArrays

NextTilts ==
    \/ \E d \in RotateDegrees : Preprocess(d)
    \/ ReconstructMethod("GD", Scalar(Unit))
    \/ \E args \in ReconstructArgs \cup {[DefaultArgs EXCEPT !.step_size = 0]} :
          ReconstructBegin(args)
    \/ IterStart
    \/ \E shuffled \in UNION {ShuffleOrders(n) : n \in 1..2} : TiltStart(shuffled)
    \/ ForwardStep
    \/ AdjointStep
    \/ BatchEnd
    \/ TiltEnd
    \/ IterEnd
    \/ StoreResult

SpecTilts == InitTilts /\ [][NextTilts]_vars

-----------------------------------------------------------------------------
\* reconstruct() called again on the same instance: gradient descent or a projection
\* scheme, with the arguments that decide what a call starts from and what it keeps.

\* One call more is made than MaxCalls, and one more than MaxRuns gets past the
\* method chain.
PreprocessAgain(rotate_degrees) == PreprocessCall(rotate_degrees, MaxCalls + 1)
ReconstructAgain(m, p) == ReconstructCall(m, p, MaxCalls + 1, MaxRuns + 1)

ResumeArgs ==
    {DefaultArgs}
    \cup {[DefaultArgs EXCEPT !.reset = r] : r \in Resets}
    \cup {[DefaultArgs EXCEPT !.store_iterations = TRUE, !.reset = r] :
             r \in {None, <<TRUE>>}}
    \cup {[DefaultArgs EXCEPT !.max_iter = 0]}
    \cup {[DefaultArgs EXCEPT !.fix_positions_iter = MaxIter - 1]}

NextResume ==
    \/ \E d \in RotateDegrees : PreprocessAgain(d)
    \/ \E m \in LoopMethods : ReconstructAgain(m, Scalar(Unit))
    \/ \E args \in ResumeArgs : ReconstructBegin(args)
    \/ IterStart
    \/ \E shuffled \in UNION {ShuffleOrders(n) : n \in 1..2} : TiltStart(shuffled)
    \/ ForwardStep
    \/ AdjointStep
    \/ BatchEnd
    \/ TiltEnd
    \/ IterEnd
    \/ StoreResult

SpecResume == Init /\ [][NextResume]_vars

-----------------------------------------------------------------------------
\* Properties

Errors == {"ValueError", "TypeError", "AttributeError", "NameError", "IndexError",
           "UnboundLocalError"}

\* The errors reconstruct() raises for its arguments: the method, the parameter, and
\* batching with a projection scheme.
ConfigurationErrors == {"ValueError", "TypeError"}

DifferenceMapNames == {"DM_AP", "difference-map_alternating-projections"}
RAARNames == {"RAAR", "relaxed-averaged-alternating-reflections"}
RRRNames == {"RRR", "relax-reflect-reflect"}
SuperflipNames == {"SUPERFLIP", "charge-flipping"}
\* The names the docstring of reconstruct() lists
DocumentedNames == {"generalized-projection", "GD", "gradient_descent"}
                   \cup DifferenceMapNames \cup RAARNames \cup RRRNames
                   \cup SuperflipNames

\* reconstruct() has just worked out the method from the arguments in `given`
MethodAccepted == pc = "configured" /\ outcome = "running"
MethodRejected == pc = "idle" /\ outcome = "ValueError"

\* C1: preprocess() called on an instance on which preprocess() has completed is
\* rejected with an error, and the initial object, probe and position snapshots are
\* not rebuilt.
PreprocessIsOneTime ==
    [][(pc = "idle" /\ preprocessed /\ op' = "preprocess" /\ calls' = calls + 1)
          => /\ outcome' \in Errors
             /\ UNCHANGED <<object_initial, probe_initial, positions_px_initial_all>>]_vars

ProjectionSetsRefuseBatching ==
    pc \in LoopPcs => ~(loc.use_projection_scheme /\ loc.batched)

\* C4: a reconstruction_parameter outside [0, 1] for DM_AP and RAAR, outside [0, 2]
\* for RRR, or not a sequence of three numbers for generalized-projection, is
\* rejected by the method chain (before any iteration); every value in range, the
\* bounds of the range included, is accepted.
ParameterRanges ==
    given.reconstruction_method # "" =>
        LET m == given.reconstruction_method
            p == given.reconstruction_parameter
        IN /\ m = "generalized-projection" =>
                  IF ~p.scalar /\ Len(p.v) = 3 THEN MethodAccepted ELSE MethodRejected
           /\ (m \in DifferenceMapNames \cup RAARNames /\ p.scalar) =>
                  IF 0 <= p.v[1] /\ p.v[1] <= Unit THEN MethodAccepted
                  ELSE MethodRejected
           /\ (m \in RRRNames /\ p.scalar) =>
                  IF 0 <= p.v[1] /\ p.v[1] <= 2 * Unit THEN MethodAccepted
                  ELSE MethodRejected

\* C4, its case: RRR is given 2.0, the upper bound of its range, and is accepted.
ParameterAtUpperBound ==
    /\ MethodAccepted
    /\ given.reconstruction_method = "RRR"
    /\ given.reconstruction_parameter = Scalar(2 * Unit)

\* C5: a step of reconstruct() that ends the call in a configuration error, and the
\* step through the method chain before it, leave the object, the probe, the scan
\* positions, the exit waves, the stored result, the histories and the random
\* generator as they were.
ConfigurationErrorsChangeNothing ==
    [][(/\ op' = "reconstruct"
        /\ pc \in {"idle", "configured"}
        /\ \/ pc' = "configured"
           \/ pc' = "idle" /\ outcome' \in ConfigurationErrors)
          => UNCHANGED <<object, probe, positions_px_all, exit_waves, result,
                         object_iterations, probe_iterations, error_iterations,
                         rng>>]_vars

\* C5, its case: on a preprocessed instance reconstruct() got past the method chain
\* and refused batching with a projection scheme.
BatchingWasRefused ==
    /\ preprocessed
    /\ op = "reconstruct"
    /\ pc = "idle"
    /\ given = NoGiven
    /\ outcome = "ValueError"

\* C6: every name the documentation lists is accepted (given a parameter the method
\* takes) and selects the documented algorithm, "GD" and "gradient_descent" gradient
\* descent and the others the projection scheme; every other name raises an error.
DocumentedNamesAccepted ==
    given.reconstruction_method # "" =>
        LET m == given.reconstruction_method
            p == given.reconstruction_parameter
            Selects(scheme) == MethodAccepted /\ loc.use_projection_scheme = scheme
        IN /\ m \in {"GD", "gradient_descent"} => Selects(FALSE)
           /\ m \in SuperflipNames => Selects(TRUE)
           /\ (m \in DifferenceMapNames \cup RAARNames \cup RRRNames /\ p = Scalar(Unit))
                  => Selects(TRUE)
           /\ (m = "generalized-projection" /\ ~p.scalar /\ Len(p.v) = 3)
                  => Selects(TRUE)
           /\ m \notin DocumentedNames => pc = "idle" /\ outcome \in Errors

\* C7: for every accepted parameter p the coefficients (a, b, c) are (-p, 1, 1 + p)
\* for DM_AP, (1 - 2p, p, 2) for RAAR, (-p, p, 2) for RRR, (0, 1, 2) for SUPERFLIP
\* and the given triple for generalized-projection; RAAR and RRR at p = 1 give the
\* triple of DM_AP at p = 1.
ClosedFormCoefficients ==
    /\ (MethodAccepted /\ given.reconstruction_method # "") =>
           LET m == given.reconstruction_method
               p == given.reconstruction_parameter
           IN /\ m \in DifferenceMapNames =>
                     loc.projection = <<-p.v[1], Unit, Unit + p.v[1]>>
              /\ m \in RAARNames =>
                     loc.projection = <<Unit - 2 * p.v[1], p.v[1], 2 * Unit>>
              /\ m \in RRRNames => loc.projection = <<-p.v[1], p.v[1], 2 * Unit>>
              /\ m \in SuperflipNames => loc.projection = <<0, Unit, 2 * Unit>>
              /\ m = "generalized-projection" => loc.projection = p.v
    /\ RAARCoefficients(Unit) = DMAPCoefficients(Unit)
    /\ RRRCoefficients(Unit) = DMAPCoefficients(Unit)

\* C7, its case: RAAR is given 1.0 and its coefficients are those of the difference
\* map at 1.0.
RAARAtOne ==
    /\ MethodAccepted
    /\ given.reconstruction_method = "RAAR"
    /\ given.reconstruction_parameter = Scalar(Unit)
    /\ loc.projection = <<-Unit, Unit, 2 * Unit>>

\* C8: with a projection-set method the forward step of a batch completes, and the
\* last slice of its exit wave is x * prev + a * overlap + b * P(c * overlap + y * prev)
\* with x = 1 - a - b, y = 1 - c, overlap the last-slice overlap of the batch and prev
\* the previous exit wave (taken from the batch when there is none).  The
\* coefficients are fixed-point, so the exit wave is compared times Unit.
ProjectionSetsExitWave ==
    (fwd.called /\ fwd.use_projection_scheme) =>
        /\ fwd.completed
        /\ LET a == fwd.projection[1]
               b == fwd.projection[2]
               c == fwd.projection[3]
               x == Unit - a - b
               y == Unit - c
               prev == IF fwd.previous = None THEN fwd.propagated_probes
                       ELSE fwd.previous[1].last
           IN Unit * exit_waves[1].last =
                  x * prev + a * fwd.overlap
                  + b * MagnitudeProjection(fwd.amplitudes, c * fwd.overlap + y * prev)

\* C9: an adjoint step taken with fix_probe true (a0 < fix_probe_iter) returns the
\* probe it was given.
FixProbeKeepsProbe ==
    [][(pc = "adjoint" /\ pc' = "batch_end" /\ loc.a0 < loc.fix_probe_iter)
          => probe' = probe]_vars

\* C10: at the end of an iteration a0 < fix_probe_iter the probe is the probe the
\* iteration started with.
ProbeHeldWhileFixed ==
    (pc = "iter_end" /\ loc.a0 < loc.fix_probe_iter) => probe = probe_at_iter_start

-----------------------------------------------------------------------------
\* The main loop: constraints, batches, histories, positions

Filters == {"gaussian", "butterworth"}
Applied(step) == \E k \in 1..Len(loc.applied) : loc.applied[k] = step

\* A tilt pass has just ended: its constraint step is the last thing that happened.
AfterTiltPass == pc \in {"tilt", "iter_end"} /\ loc.applied # None

\* Volumes the clamp is tried on
SmallVolumes == [1..NumVoxels -> -Unit..Unit]

\* C11: the positivity clamp is part of every constraint step, whatever filters are
\* set: after every tilt pass, and in the object a call that returns has stored, every
\* entry of the object is >= 0; the clamp leaves the entries that are already >= 0 as
\* they are (and the pass, when no filter ran, changes only the negative ones).
ObjectNeverNegative ==
    /\ AfterTiltPass =>
          /\ Applied("positivity")
          /\ \A i \in 1..Len(object) : object[i] >= 0
          /\ (\A f \in Filters : ~Applied(f)) =>
                \A i \in 1..Len(object) :
                    loc.unconstrained[i] >= 0 => object[i] = loc.unconstrained[i]
    /\ (pc = "idle" /\ op = "reconstruct" /\ outcome = "returned") =>
          /\ \A i \in 1..Len(result.object[1]) : result.object[1][i] >= 0
          /\ \A v \in SmallVolumes : \A i \in 1..NumVoxels :
                /\ ObjectPositivityConstraint(v)[i] >= 0
                /\ v[i] >= 0 => ObjectPositivityConstraint(v)[i] = v[i]

\* A tilt pass with a filter set whose update had driven the object below zero
NegativeEntryClamped ==
    /\ AfterTiltPass
    /\ \E f \in Filters : Applied(f)
    /\ \E i \in 1..Len(object) : loc.unconstrained[i] < 0 /\ object[i] = 0

\* The patterns of the batches visited so far in the tilt pass, in the order visited
RECURSIVE Flattened(_)
Flattened(batches) ==
    IF batches = <<>> THEN <<>> ELSE Head(batches) \o Flattened(Tail(batches))

\* C12: in a tilt pass no pattern is in two batches and no batch holds more than
\* max_batch_size patterns; when the pass ends every pattern of the tilt has been in
\* exactly one batch, the batches taken together being the visiting order, which is a
\* permutation of the tilt's patterns for gradient descent and their original order
\* for a projection scheme; without max_batch_size the whole tilt is one batch.
\* Batches of up to max_batch patterns split any number of patterns completely.
EveryPatternInOneBatch ==
    /\ pc \in {"forward", "adjoint", "batch_end", "tilt_end"} =>
          LET n == NumPatterns(loc.tilt)
              seen == Flattened(loc.visited)
          IN /\ Len(loc.shuffled_indices) = n
             /\ \A i \in 1..n : \E k \in 1..n : loc.shuffled_indices[k] = i
             /\ loc.use_projection_scheme => loc.shuffled_indices = Arange(n)
             /\ \A j, k \in 1..Len(seen) : seen[j] = seen[k] => j = k
             /\ \A b \in 1..Len(loc.visited) :
                   /\ Len(loc.visited[b]) >= 1
                   /\ Len(loc.visited[b]) <= loc.max_batch_size
             /\ pc = "tilt_end" =>
                   /\ seen = loc.shuffled_indices
                   /\ \A i \in 1..n : \E k \in 1..Len(seen) : seen[k] = i
                   /\ ~loc.batched => Len(loc.visited) = 1
    /\ pc = "tilt" =>
          \A n \in 1..(num_diffraction_patterns + 1) :
             \A max_batch \in 1..(num_diffraction_patterns + 1) :
                LET batches == NumBatches(n, max_batch) IN
                /\ BatchStart(n, max_batch, batches) = n
                /\ \A b \in 0..(batches - 1) : BatchSize(n, max_batch, b) \in 1..max_batch
                /\ max_batch >= n => batches = 1

\* A tilt of two patterns visited in two batches, the second pattern first
TiltVisitedInTwoBatches ==
    /\ pc = "tilt_end"
    /\ loc.batched
    /\ loc.visited = <<(<<2>>), (<<1>>)>>

\* The loop of a call is about to start its first iteration.
FirstIterationStarts == pc = "iter" /\ loc.a0 = 0

\* C13: whatever calls were made before, reconstruct(reset=True) starts its first
\* iteration from the snapshots preprocess() took: the object, the probe and the
\* positions are the initial ones, the previous exit wave is None; and no step of
\* reconstruct() changes the snapshots.
ResetStartsFromSnapshots ==
    /\ [](FirstIterationStarts /\ loc.reset = <<TRUE>> =>
             /\ object = object_initial
             /\ probe = probe_initial
             /\ positions_px_all = positions_px_initial_all
             /\ exit_waves = None)
    /\ [][(pc # "idle" \/ op' = "reconstruct") =>
             UNCHANGED <<object_initial, probe_initial, positions_px_initial_all>>]_vars

\* A second call, with reset=True, after a call that had moved the object, the probe
\* and the positions and left an exit wave
ResetAfterReconstruction ==
    /\ FirstIterationStarts
    /\ loc.reset = <<TRUE>>
    /\ runs = MaxRuns + 1
    /\ "error" \in attrs
    /\ result.object[1] # object_initial
    /\ result.probe # probe_initial

\* C14: a call with reset left at its default starts from what the previous call
\* left (object, probe, positions and exit waves are not touched on the way to the
\* loop) and warns exactly when an earlier reconstruct() has returned; the first call
\* after a preprocess() that returned does not warn and starts with no previous exit
\* wave.
DefaultResetResumes ==
    /\ [][(pc = "configured" /\ pc' = "iter" /\ loc'.reset = None) =>
             UNCHANGED <<object, probe, positions_px_all, exit_waves>>]_vars
    /\ [](FirstIterationStarts /\ loc.reset = None =>
             /\ loc.warned <=> result.error # None
             /\ loc.follows_preprocess => ~loc.warned /\ exit_waves = None)

-----------------------------------------------------------------------------
\* The array helpers applied on their own: _propagate_array with the kernels of
\* _precompute_propagator_arrays, along one axis of gpts points,
\* _expand_or_project_sliced_object, and the adjoint operators on a stack of two
\* slices.  Complex numbers are pairs <<re, im>> of integers.

CAdd(a, b) == <<a[1] + b[1], a[2] + b[2]>>
CMul(a, b) == <<a[1] * b[1] - a[2] * b[2], a[1] * b[2] + a[2] * b[1]>>
CConj(a) == <<a[1], -a[2]>>

\* exp(1j * n * pi / 2)
QuarterTurns(n) ==
    CASE n % 4 = 0 -> <<1, 0>>
      [] n % 4 = 1 -> <<0, 1>>
      [] n % 4 = 2 -> <<-1, 0>>
      [] n % 4 = 3 -> <<0, -1>>

RECURSIVE CSum(_, _)
CSum(terms, n) == IF n = 0 THEN <<0, 0>> ELSE CAdd(CSum(terms, n - 1), terms[n])

\* gpts along the axis, and sampling in tenths of an Angstrom
gpts == 4
sampling == 5

\* xp.fft.fft2 along the axis: sum over x of array[x] * exp(-2 pi i q x / gpts)
Fft(array) ==
    [q \in 1..gpts |->
        CSum([x \in 1..gpts |-> CMul(array[x], QuarterTurns(-(q - 1) * (x - 1)))], gpts)]

\* xp.fft.ifft2 along the axis, times gpts:
\* sum over q of array[q] * exp(2 pi i q x / gpts)
IfftTimesGpts(array) ==
    [x \in 1..gpts |->
        CSum([q \in 1..gpts |-> CMul(array[q], QuarterTurns((q - 1) * (x - 1)))], gpts)]

\* spatial_frequencies: entry q of the axis holds k = n / (gpts * sampling) for this n
FrequencyNumber(q) == IF 2 * (q - 1) < gpts THEN q - 1 ELSE q - 1 - gpts

\* The antialias mask at frequency number n, times Unit: 0 where k > kcut, kcut being
\* 2/3 of 1 / (2 sampling), 1 where k <= kcut - 0.1, and the cosine roll-off (a half
\* here) in between
AntialiasMask(n) ==
    IF 3 * Abs(n) > gpts THEN 0
    ELSE IF 300 * Abs(n) > 100 * gpts - 3 * gpts * sampling THEN Unit \div 2
    ELSE Unit

\* slice_thicknesses, in units in which pi * wavelength * dz / (gpts * sampling)^2 is
\* a quarter turn
SliceThicknesses == {1, 2}

\* exp(1j * (-(k^2) * pi * wavelength * dz)) * antialias_mask, times Unit
PropagatorArray(dz) ==
    [q \in 1..gpts |->
        LET n == FrequencyNumber(q)
            phase == QuarterTurns(-dz * n * n)
        IN <<phase[1] * AntialiasMask(n), phase[2] * AntialiasMask(n)>>]

\* ifft2(fft2(array) * propagator_array), times gpts * Unit
PropagateArray(array, propagator_array) ==
    IfftTimesGpts([q \in 1..gpts |-> CMul(Fft(array)[q], propagator_array[q])])

\* Fields to propagate, and volumes of num_slices slices or NumVoxels voxels to
\* resample (entries that the resampling divides exactly)
Fields == [1..gpts -> {<<0, 0>>, <<1, 0>>, <<0, 1>>}]
Volumes ==
    LET thicknesses == {NumVoxels * v : v \in 0..4}
    IN [1..num_slices -> thicknesses] \cup [1..NumVoxels -> thicknesses]

\* What the adjoint leaves in the stack propagated_probes it was given, for waves
\* uniform over the field (so that propagation multiplies by the kernel at zero
\* frequency, exp(0) = 1).  Gradient descent, `for s in reversed(range(num_slices))`,
\* slice s counted from 1 and `waves` the stack exit_waves: `probe =
\* propagated_probes[s]` is a view of the stack and,
\* above the first slice, `probe += conj(obj) * exit_wave` writes into it, before
\* `exit_waves[s - 1] += propagate(probe, conj(kernel))`.
RECURSIVE GradientDescentAdjointProbes(_, _, _, _)
GradientDescentAdjointProbes(object_patches, propagated_probes, waves, s) ==
    IF s <= 1 THEN propagated_probes
    ELSE LET wave == CAdd(propagated_probes[s],
                          CMul(CConj(object_patches[s]), waves[s]))
             back == CMul(wave, CConj(QuarterTurns(0)))
         IN GradientDescentAdjointProbes(
                object_patches,
                [propagated_probes EXCEPT ![s] = wave],
                [waves EXCEPT ![s - 1] = CAdd(waves[s - 1], back)],
                s - 1)

\* A projection scheme: `probe = conj(obj) * exit_wave * object_normalization` binds
\* the name anew and the stack stays as it was.
ProjectionSetsAdjointProbes(object_patches, propagated_probes, waves) ==
    propagated_probes

InitArrays ==
    /\ Constructed({"cpu"})
    /\ \/ \E f \in Fields, dz \in SliceThicknesses :
             arrays = [fn |-> "propagate", input |-> f, kernel |-> PropagatorArray(dz),
                       current |-> f, done |-> <<>>]
       \/ \E v \in Volumes :
             arrays = [fn |-> "resample", input |-> v, kernel |-> None, current |-> v,
                       done |-> <<>>]
       \/ \E object_patches \in [1..2 -> {<<1, 0>>, <<0, 1>>}],
             propagated_probes \in [1..2 -> {<<1, 0>>, <<0, 1>>}],
             waves \in [1..2 -> {<<0, 0>>, <<1, 0>>}] :
             arrays = [fn |-> "adjoint",
                       input |-> [object_patches |-> object_patches,
                                  propagated_probes |-> propagated_probes,
                                  exit_waves |-> waves],
                       kernel |-> None, current |-> propagated_probes, done |-> <<>>]

\* probe_wave[s + 1] = propagate(overlap[s], kernel[s])
Propagate ==
    /\ arrays.fn = "propagate"
    /\ arrays.done = <<>>
    /\ arrays' = [arrays EXCEPT !.current = PropagateArray(arrays.current, arrays.kernel),
                                !.done = <<"propagate">>]
    /\ UNCHANGED program_vars

\* The adjoint's way back: propagate(exit_wave, conj(kernel))
PropagateBack ==
    /\ arrays.fn = "propagate"
    /\ arrays.done = <<"propagate">>
    /\ arrays' = [arrays EXCEPT
          !.current = PropagateArray(arrays.current,
                                     [q \in 1..gpts |-> CConj(arrays.kernel[q])]),
          !.done = <<"propagate", "propagate_back">>]
    /\ UNCHANGED program_vars

\* _expand_or_project_sliced_object(array, self._num_voxels)
Expand ==
    /\ arrays.fn = "resample"
    /\ Len(arrays.done) < 2
    /\ Len(arrays.current) = num_slices
    /\ arrays' = [arrays EXCEPT !.current = ExpandOrProject(arrays.current, NumVoxels),
                                !.done = Append(arrays.done, "expand")]
    /\ UNCHANGED program_vars

\* _expand_or_project_sliced_object(array, self._num_slices)
Project ==
    /\ arrays.fn = "resample"
    /\ Len(arrays.done) < 2
    /\ Len(arrays.current) = NumVoxels
    /\ arrays' = [arrays EXCEPT !.current = ExpandOrProject(arrays.current, num_slices),
                                !.done = Append(arrays.done, "project")]
    /\ UNCHANGED program_vars

\* _gradient_descent_adjoint on a stack of two slices: the stack propagated_probes as
\* the caller finds it afterwards
AdjointGradientDescent ==
    /\ arrays.fn = "adjoint"
    /\ arrays.done = <<>>
    /\ arrays' = [arrays EXCEPT
          !.current = GradientDescentAdjointProbes(arrays.input.object_patches,
                                                   arrays.current,
                                                   arrays.input.exit_waves,
                                                   Len(arrays.current)),
          !.done = <<"gradient_descent">>]
    /\ UNCHANGED program_vars

\* _projection_sets_adjoint on the same stack
AdjointProjectionSets ==
    /\ arrays.fn = "adjoint"
    /\ arrays.done = <<>>
    /\ arrays' = [arrays EXCEPT
          !.current = ProjectionSetsAdjointProbes(arrays.input.object_patches,
                                                  arrays.current,
                                                  arrays.input.exit_waves),
          !.done = <<"projection_sets">>]
    /\ UNCHANGED program_vars

NextArrays ==
    \/ Propagate
    \/ PropagateBack
    \/ Expand
    \/ Project
    \/ AdjointGradientDescent
    \/ AdjointProjectionSets

SpecArrays == InitArrays /\ [][NextArrays]_vars

\* C16: a field propagated with a kernel of the precomputation and then with the
\* conjugated kernel is the field again (each propagation here carries the factor
\* gpts * Unit).
PropagationInverted ==
    (arrays.fn = "propagate" /\ arrays.done = <<"propagate", "propagate_back">>) =>
        \A x \in 1..gpts :
            arrays.current[x] = <<gpts * Unit * gpts * Unit * arrays.input[x][1],
                                  gpts * Unit * gpts * Unit * arrays.input[x][2]>>

\* C17: resampling a volume one way and back conserves its total: slices expanded to
\* voxels and projected back, and voxels projected to slices and expanded back, sum
\* to what the volume summed to.
ResamplingConservesTotal ==
    (arrays.fn = "resample" /\ Len(arrays.done) = 2) =>
        SumTo(arrays.current, Len(arrays.current)) = SumTo(arrays.input, Len(arrays.input))

\* C18: during an iteration a0 < fix_positions_iter the positions are held: no batch
\* corrects them (the positions of the pass stay the stored ones in visiting order),
\* the constraint step applies no position constraint, and no step of the iteration
\* changes a stored position, whatever the visiting order and the batches.
PositionsHeldWhileFixed ==
    /\ []((pc \in {"forward", "adjoint", "batch_end", "tilt_end"}
               /\ loc.a0 < loc.fix_positions_iter) =>
             \A j \in 1..NumPatterns(loc.tilt) :
                 loc.positions_px[j] =
                     positions_px_all[cum_probes_per_tilt(loc.tilt)
                                      + loc.shuffled_indices[j]])
    /\ []((AfterTiltPass /\ loc.a0 < loc.fix_positions_iter) =>
             /\ ~Applied("positions_center_of_mass")
             /\ ~Applied("positions_affine_transformation"))
    /\ [][(pc \in LoopPcs /\ loc.a0 < loc.fix_positions_iter) =>
             positions_px_all' = positions_px_all]_vars

\* A pass over a tilt of two patterns, the second visited first, each in a batch of
\* its own, has ended with the positions held
ShuffledPassWithPositionsHeld ==
    /\ AfterTiltPass
    /\ loc.a0 < loc.fix_positions_iter
    /\ loc.visited = <<(<<2>>), (<<1>>)>>
    /\ positions_px_all[1] # positions_px_all[2]

\* C19: in a batched gradient-descent call given seed_random, on either device, the
\* order in which a tilt pass visits its patterns is decided by the seed and by the
\* place of the pass in the call (the numbers drawn before it) and by nothing else:
\* it is the order a generator seeded with seed_random gives there, so two such calls
\* visit alike.
SeedDecidesVisitingOrder ==
    (/\ pc \in {"forward", "adjoint", "batch_end", "tilt_end"}
     /\ ~loc.use_projection_scheme
     /\ loc.batched
     /\ loc.seed_random # None) =>
        LET drawn_before == loc.a0 * (num_diffraction_patterns - num_tilts)
                            + (cum_probes_per_tilt(loc.tilt) - loc.tilt)
        IN loc.shuffled_indices =
               SeededShuffle(loc.seed_random[1], drawn_before, NumPatterns(loc.tilt))

\* C20: every constraint step applies its constraints in one order: Gaussian filter,
\* Butterworth filter, positivity, probe Fourier amplitude, probe finite support,
\* probe centre of mass, positions centre of mass, positions affine fit.  Positivity
\* and the finite support are always applied; the Gaussian filter exactly when
\* a0 < gaussian_filter_iter and a sigma is given, the Butterworth filter exactly
\* when a0 < butterworth_filter_iter and a cutoff is given, the Fourier amplitude
\* exactly when a0 < fix_probe_fourier_amplitude_iter, the probe centre of mass only
\* with fix_com, the positions' centre of mass exactly when the positions are not
\* fixed and the affine fit only then and with global_affine_transformation.
ConstraintsInFixedOrder ==
    AfterTiltPass =>
        LET order == <<"gaussian", "butterworth", "positivity", "probe_fourier_amplitude",
                       "probe_finite_support", "probe_center_of_mass",
                       "positions_center_of_mass", "positions_affine_transformation">>
            place(step) == CHOOSE k \in 1..Len(order) : order[k] = step
        IN /\ \A k \in 1..Len(loc.applied) : \E j \in 1..Len(order) : order[j] = loc.applied[k]
           /\ \A j, k \in 1..Len(loc.applied) :
                 j < k => place(loc.applied[j]) < place(loc.applied[k])
           /\ Applied("positivity")
           /\ Applied("probe_finite_support")
           /\ Applied("gaussian") <=>
                 (loc.a0 < loc.gaussian_filter_iter /\ loc.gaussian_filter_sigma # None)
           /\ Applied("butterworth") <=>
                 (/\ loc.a0 < loc.butterworth_filter_iter
                  /\ (loc.q_lowpass # None \/ loc.q_highpass # None))
           /\ Applied("probe_fourier_amplitude") <=>
                 loc.a0 < loc.fix_probe_fourier_amplitude_iter
           /\ Applied("probe_center_of_mass") => loc.fix_com
           /\ Applied("positions_center_of_mass") <=> ~(loc.a0 < loc.fix_positions_iter)
           /\ Applied("positions_affine_transformation") =>
                 Applied("positions_center_of_mass") /\ loc.global_affine_transformation

\* A constraint step with every option on applied all eight constraints
EveryConstraintApplied ==
    /\ AfterTiltPass
    /\ Len(loc.applied) = 8

-----------------------------------------------------------------------------
\* The main loop: the iteration error, the tilt passes and the exit waves

\* C23: the error of an iteration is set to zero when the iteration starts, every
\* batch of every tilt adds its batch error to it and nothing else changes it, so it
\* is the sum of the iteration's batch errors; when the loop is done, whatever
\* max_iter >= 0 was, reconstruct() returns and the error it exposes is a scalar, the
\* error of the last iteration.
ErrorSumsBatchErrors ==
    [][/\ (pc = "iter" /\ pc' = "tilt") => loc'.error = <<0>>
       /\ pc = "batch_end" => loc'.error = <<loc.error[1] + loc.batch_error>>
       /\ (pc \in LoopPcs \ {"iter", "batch_end"} /\ pc' \in LoopPcs) =>
              loc'.error = loc.error
       /\ pc = "store" =>
              /\ outcome' = "returned"
              /\ loc.error # None
              /\ result'.error = loc.error]_vars

\* C28: whatever reset is (None, False or True), when the first batch of the first
\* reconstruct() call after a preprocess() that returned takes its forward step, the
\* instance has its exit-wave attribute and it is None: the call is a fresh start.
ExitWavesDefinedAfterPreprocess ==
    (/\ pc = "forward"
     /\ loc.follows_preprocess
     /\ loc.a0 = 0 /\ loc.tilt = 0 /\ loc.batch = 0) =>
        /\ "_exit_waves" \in attrs
        /\ exit_waves = None

\* C26: when the constraint step of a tilt is about to fit the global affine
\* transformation (positions not fixed, global_affine_transformation set), the initial
\* positions it will be given are those of the tilt's patterns, as many as the tilt
\* has and in the order of the current positions it will be given (the stored order),
\* whatever the visiting order and the batches were.
AffineFitsSamePatterns ==
    (/\ pc = "tilt_end"
     /\ ~(loc.a0 < loc.fix_positions_iter)
     /\ loc.global_affine_transformation) =>
        loc.positions_px_initial =
            [i \in 1..NumPatterns(loc.tilt) |->
                positions_px_initial_all[cum_probes_per_tilt(loc.tilt) + i]]

\* C29: the histories hold only snapshots of iterations run since the most recent
\* call with reset=True: while such a call runs, after a0 of its iterations, each of
\* the three histories holds at most a0 snapshots, whether or not the call stores its
\* iterations.
HistoriesSinceReset ==
    (pc \in LoopPcs /\ loc.reset = <<TRUE>>) =>
        /\ Len(object_iterations) <= loc.a0
        /\ Len(probe_iterations) <= loc.a0
        /\ Len(error_iterations) <= loc.a0

\* C22: the previous exit wave a projection-set batch is supplied with was never
\* computed by a gradient-descent batch, of the same call or of an earlier one.
ExitWavesStayWithProjection ==
    (fwd.called /\ fwd.use_projection_scheme /\ fwd.previous # None) =>
        fwd.previous[1].projection

\* C27: when a batch of a projection-set call is about to take its forward step, the
\* previous exit wave it will be supplied with is None or the exit wave computed for
\* the same batch of the same tilt; it is never that of another tilt.
PreviousExitWaveOfSamePatterns ==
    (/\ pc = "forward"
     /\ loc.use_projection_scheme
     /\ "_exit_waves" \in attrs
     /\ exit_waves # None) =>
        /\ exit_waves[1].tilt = loc.tilt
        /\ exit_waves[1].batch = loc.batch

FoldAddsSlicedDelta ==
    [][(pc = "tilt_end" /\ pc' \in LoopPcs) =>
          LET angle == tilt_angles_deg[loc.tilt + 1]
              folded == Rotate(loc'.unconstrained, angle)
              delta == [s \in 1..num_slices |-> object_sliced[s] - object_sliced_old[s]]
          IN /\ object_sliced_old = ExpandOrProject(object, num_slices)
             /\ \A i \in 1..NumVoxels :
                   folded[i] = object[i] + ExpandOrProject(delta, NumVoxels)[i]
             /\ object_sliced = object_sliced_old => folded = object]_vars

\* A tilt pass has ended whose batches left the sliced object as it was, on a volume
\* that resampling to num_slices and back would not give again
FoldOfNothing ==
    /\ AfterTiltPass
    /\ object_sliced = object_sliced_old
    /\ loc.unconstrained # ExpandOrProject(ExpandOrProject(loc.unconstrained, num_slices),
                                           NumVoxels)

\* C30: the adjoint leaves the stack of probe waves of the forward pass as it was:
\* under both update disciplines the last-slice probe wave the caller holds after
\* the adjoint (and hands to the position correction) is the one it held before.
ProbeWavesSurviveAdjoint ==
    (arrays.fn = "adjoint" /\ arrays.done # <<>>) =>
        LET last == Len(arrays.current)
        IN arrays.current[last] = arrays.input.propagated_probes[last]

====
